---- MODULE Spec2Model ----
(***************************************************************************)
(* metadataStore/dataapi/raw_commands.py as a state machine.               *)
(*                                                                         *)
(* The state is the four collections of the document store (Header,        *)
(* EventDescriptor, Event, BeamlineConfig), each a sequence of documents   *)
(* in natural (insertion) order, the outcome of the last API call (res),   *)
(* and, for the interleaved header updates, each client's position and     *)
(* local copy of the record it read.                                       *)
(*                                                                         *)
(* Python values: None is the empty set and a present value v is {v}       *)
(* wherever an argument or a field is optional; a str that is inspected    *)
(* character by character (owner) is a sequence of one-character strings;  *)
(* a datetime is a tick of the store's clock (a natural number).           *)
(***************************************************************************)
EXTENDS Integers, Sequences, FiniteSets, TLC

VARIABLES Header, EventDescriptor, Event, BeamlineConfig, res, pc, original_entry, call, log

vars == <<Header, EventDescriptor, Event, BeamlineConfig, res, pc, original_entry, call, log>>

store == <<Header, EventDescriptor, Event, BeamlineConfig>>

clients == <<pc, original_entry, call, log>>

(***************************************************************************)
(* Bounds of the model.                                                    *)
(***************************************************************************)
MaxHeaders == 2

MaxDescriptors == 2

MaxEvents == 2

MaxTime == 2

MaxRecent == 6

(***************************************************************************)
(* Python values.                                                          *)
(***************************************************************************)
None == {}

Some(v) == {v}

The(x) == CHOOSE v \in x : TRUE

Return(v) == [raised |-> "", value |-> Some(v)]

Raise(e) == [raised |-> e, value |-> None]

\* the store's ObjectIds: unique across the collections
HeaderIdBase == 100

DescriptorIdBase == 200

EventIdBase == 300

NewId(base, coll) == base + Len(coll) + 1

(***************************************************************************)
(* save_header                                                             *)
(***************************************************************************)
\* the status passed by the caller dropped for the default
NewHeader_default_status(scan_id, header_owner, start_time, beamline_id, status, custom) ==
    [_id |-> NewId(HeaderIdBase, Header), owner |-> header_owner,
     start_time |-> start_time, end_time |-> start_time,
     beamline_id |-> beamline_id, scan_id |-> scan_id,
     custom |-> custom, status |-> "In Progress"]

NewHeader(scan_id, header_owner, start_time, beamline_id, status, custom) ==
    [_id |-> NewId(HeaderIdBase, Header), owner |-> header_owner,
     start_time |-> start_time, end_time |-> start_time,
     beamline_id |-> beamline_id, scan_id |-> scan_id,
     custom |-> custom, status |-> status]

save_header(scan_id, header_owner, start_time, beamline_id, status, custom) ==
    LET header == NewHeader(scan_id, header_owner, start_time, beamline_id, status, custom)
    IN /\ Header' = Append(Header, header)
       /\ res' = [op |-> "save_header",
                  args |-> <<scan_id, header_owner, start_time, beamline_id, status, custom>>,
                  raised |-> "", value |-> Some(header)]
       /\ UNCHANGED <<EventDescriptor, Event, BeamlineConfig, clients>>

(***************************************************************************)
(* get_header_object, get_header_id                                        *)
(***************************************************************************)
\* the filter on _id dropped: any stored header makes the queryset non-empty
get_header_object_any(id) == Header

get_header_object(id) == SelectSeq(Header, LAMBDA h : h._id = id)

\* the filter on scan_id dropped: the first stored header answers for any scan
get_header_id_unfiltered(scan_id) ==
    IF Len(Header) = 0
    THEN Raise("Exception")
    ELSE Return(Header[1]._id)

get_header_id(scan_id) ==
    LET matched == SelectSeq(Header, LAMBDA h : h.scan_id = scan_id)
        hdr_crsr == SubSeq(matched, 1, IF Len(matched) < 1 THEN Len(matched) ELSE 1)
    IN IF Len(matched) = 0
       THEN Raise("Exception")
       ELSE Return(hdr_crsr[1]._id)

call_get_header_id(scan_id) ==
    LET r == get_header_id(scan_id)
    IN /\ res' = [op |-> "get_header_id", args |-> <<scan_id>>,
                  raised |-> r.raised, value |-> r.value]
       /\ UNCHANGED <<store, clients>>

(***************************************************************************)
(* insert_event_descriptor                                                 *)
(***************************************************************************)
insert_event_descriptor(scan_id, event_type_id, event_type_name, type_descriptor, tag) ==
    LET hid == get_header_id(scan_id)
        event_descriptor ==
            [_id |-> NewId(DescriptorIdBase, EventDescriptor),
             header_id |-> The(hid.value), event_type_id |-> event_type_id,
             event_type_name |-> event_type_name,
             type_descriptor |-> type_descriptor, tag |-> tag]
    IN IF hid.raised # ""
       THEN /\ res' = [op |-> "insert_event_descriptor",
                       args |-> <<scan_id, event_type_name>>,
                       raised |-> hid.raised, value |-> None]
            /\ UNCHANGED <<store, clients>>
       ELSE /\ EventDescriptor' = Append(EventDescriptor, event_descriptor)
            /\ res' = [op |-> "insert_event_descriptor",
                       args |-> <<scan_id, event_type_name>>,
                       raised |-> "", value |-> Some(event_descriptor)]
            /\ UNCHANGED <<Header, Event, BeamlineConfig, clients>>

(***************************************************************************)
(* get_event_descriptor_hid_edid, insert_event                             *)
(***************************************************************************)
\* the descriptor looked up by name alone, its header taken from the scan id
get_event_descriptor_hid_edid_by_name(name, s_id) ==
    LET hid == get_header_id(s_id)
        result == SelectSeq(EventDescriptor, LAMBDA d : d.event_type_name = name)
    IN IF hid.raised # ""
       THEN Raise(hid.raised)
       ELSE IF Len(result) = 0
            THEN Raise("IndexError")
            ELSE Return(<<The(hid.value), result[1]._id>>)

get_event_descriptor_hid_edid(name, s_id) ==
    LET hid == get_header_id(s_id)
        result == SelectSeq(EventDescriptor,
                         LAMBDA d : d.event_type_name = name /\ d.header_id = The(hid.value))
    IN IF hid.raised # ""
       THEN Raise(hid.raised)
       ELSE IF Len(result) = 0
            THEN Raise("IndexError")
            ELSE Return(<<result[1].header_id, result[1]._id>>)

insert_event(scan_id, descriptor_name, description, owner, seq_no, data) ==
    LET ids == get_event_descriptor_hid_edid(descriptor_name, scan_id)
        event == [_id |-> NewId(EventIdBase, Event),
                  event_descriptor_id |-> The(ids.value)[2],
                  header_id |-> The(ids.value)[1], description |-> description,
                  owner |-> owner, seq_no |-> seq_no, data |-> data]
    IN IF ids.raised # ""
       THEN /\ res' = [op |-> "insert_event", args |-> <<scan_id, descriptor_name>>,
                       raised |-> ids.raised, value |-> None]
            /\ UNCHANGED <<store, clients>>
       ELSE /\ Event' = Append(Event, event)
            /\ res' = [op |-> "insert_event", args |-> <<scan_id, descriptor_name>>,
                       raised |-> "", value |-> Some(event)]
            /\ UNCHANGED <<Header, EventDescriptor, BeamlineConfig, clients>>

(***************************************************************************)
(* save_beamline_config                                                    *)
(***************************************************************************)
\* Document.save() with a caller-supplied _id: the document with that _id is
\* replaced where it stands, a new one is appended
SaveById(coll, doc) ==
    IF \E i \in DOMAIN coll : coll[i]._id = doc._id
    THEN [i \in DOMAIN coll |-> IF coll[i]._id = doc._id THEN doc ELSE coll[i]]
    ELSE Append(coll, doc)

save_beamline_config(beamline_cfg_id, header_id, config_params) ==
    LET beamline_cfg == [_id |-> beamline_cfg_id, header_id |-> header_id,
                         config_params |-> config_params]
    IN IF Len(get_header_object(header_id)) # 0
       THEN /\ BeamlineConfig' = SaveById(BeamlineConfig, beamline_cfg)
            /\ res' = [op |-> "save_beamline_config",
                       args |-> <<beamline_cfg_id, header_id>>,
                       raised |-> "", value |-> Some(beamline_cfg)]
            /\ UNCHANGED <<Header, EventDescriptor, Event, clients>>
       ELSE /\ res' = [op |-> "save_beamline_config",
                       args |-> <<beamline_cfg_id, header_id>>,
                       raised |-> "ValueError", value |-> None]
            /\ UNCHANGED <<store, clients>>

(***************************************************************************)
(* update_header_end_time, update_header_status: fetch the whole record,   *)
(* overwrite one field of the copy, write the copy back.                   *)
(***************************************************************************)
\* original_entry: the list built from coll.find({'_id': header_id})
ReadEntry(header_id) == SelectSeq(Header, LAMBDA h : h._id = header_id)

WithEndTime(entry, end_time) == [entry EXCEPT !.end_time = end_time]

WithStatus(entry, status) == [entry EXCEPT !.status = status]

\* the write lost: the collection stays as it was
coll_update_noop(header_id, doc) == Header

\* coll.update({'_id': header_id}, doc, upsert=False): the first document
\* with that _id is replaced by doc as a whole
coll_update(header_id, doc) ==
    LET hit == {i \in DOMAIN Header : Header[i]._id = header_id}
        first == CHOOSE i \in hit : \A j \in hit : i <= j
    IN IF hit = {} THEN Header ELSE [Header EXCEPT ![first] = doc]

\* one client at a time: the call runs from its read to its write
update_header_end_time(header_id, end_time) ==
    LET entry == ReadEntry(header_id)
    IN IF Len(entry) = 0
       THEN /\ res' = [op |-> "update_header_end_time", args |-> <<header_id, end_time>>,
                       raised |-> "IndexError", value |-> None]
            /\ UNCHANGED <<store, clients>>
       ELSE /\ Header' = coll_update(header_id, WithEndTime(entry[1], end_time))
            /\ res' = [op |-> "update_header_end_time", args |-> <<header_id, end_time>>,
                       raised |-> "", value |-> None]
            /\ UNCHANGED <<EventDescriptor, Event, BeamlineConfig, clients>>

update_header_status(header_id, status) ==
    LET entry == ReadEntry(header_id)
    IN IF Len(entry) = 0
       THEN /\ res' = [op |-> "update_header_status", args |-> <<header_id, status>>,
                       raised |-> "IndexError", value |-> None]
            /\ UNCHANGED <<store, clients>>
       ELSE /\ Header' = coll_update(header_id, WithStatus(entry[1], status))
            /\ res' = [op |-> "update_header_status", args |-> <<header_id, status>>,
                       raised |-> "", value |-> None]
            /\ UNCHANGED <<EventDescriptor, Event, BeamlineConfig, clients>>

\* several clients at once: a call is two steps, the read into the local
\* copy (lines 210-218 and 230-238) and the write of the changed copy (lines
\* 219-223 and 239-243)
update_header_end_time_read(p, header_id, end_time) ==
    /\ pc[p] = "idle"
    /\ original_entry' = [original_entry EXCEPT ![p] = ReadEntry(header_id)]
    /\ call' = [call EXCEPT ![p] = <<"end_time", header_id, end_time>>]
    /\ pc' = [pc EXCEPT ![p] = IF Len(ReadEntry(header_id)) = 0 THEN "IndexError"
                               ELSE "end_time"]
    /\ log' = Append(log, <<p, "read">>)
    /\ UNCHANGED <<store, res>>

update_header_end_time_write(p) ==
    /\ pc[p] = "end_time"
    /\ Header' = coll_update(call[p][2], WithEndTime(original_entry[p][1], call[p][3]))
    /\ pc' = [pc EXCEPT ![p] = "done"]
    /\ log' = Append(log, <<p, "write">>)
    /\ UNCHANGED <<EventDescriptor, Event, BeamlineConfig, res, original_entry, call>>

update_header_status_read(p, header_id, status) ==
    /\ pc[p] = "idle"
    /\ original_entry' = [original_entry EXCEPT ![p] = ReadEntry(header_id)]
    /\ call' = [call EXCEPT ![p] = <<"status", header_id, status>>]
    /\ pc' = [pc EXCEPT ![p] = IF Len(ReadEntry(header_id)) = 0 THEN "IndexError"
                               ELSE "status"]
    /\ log' = Append(log, <<p, "read">>)
    /\ UNCHANGED <<store, res>>

update_header_status_write(p) ==
    /\ pc[p] = "status"
    /\ Header' = coll_update(call[p][2], WithStatus(original_entry[p][1], call[p][3]))
    /\ pc' = [pc EXCEPT ![p] = "done"]
    /\ log' = Append(log, <<p, "write">>)
    /\ UNCHANGED <<EventDescriptor, Event, BeamlineConfig, res, original_entry, call>>

(***************************************************************************)
(* find: the helpers.                                                      *)
(***************************************************************************)
\* a Python argument whose type the code inspects: an int, a str, a datetime.
\* A str is either the interned object a literal of the program text denotes
\* (PyStr) or an object built while the program runs, equal to the literal of
\* the same characters without being the same object (PyStrBuilt).
PyInt(n) == [type |-> "int", v |-> n, s |-> "", literal |-> FALSE]

PyStr(str) == [type |-> "str", v |-> 0, s |-> str, literal |-> TRUE]

PyStrBuilt(str) == [type |-> "str", v |-> 0, s |-> str, literal |-> FALSE]

PyDatetime(t) == [type |-> "datetime", v |-> t, s |-> "", literal |-> FALSE]

\* arg == lit
Equals(arg, lit) == arg # None /\ The(arg).type = "str" /\ The(arg).s = lit

\* arg is lit, the identity test of lines 274 and 287: what it can yield.
\* The literal's own object is identical to it; an equal str that is
\* another object is not (CPython), unless the interpreter compares strs by
\* value (PyPy).
Is(arg, lit) ==
    IF ~ Equals(arg, lit)
    THEN {FALSE}
    ELSE IF The(arg).literal THEN {TRUE} ELSE {TRUE, FALSE}

\* a time argument of find: None, a list, a dict with 'start' and 'end'
\* (items[1], items[2]), or a scalar (items[1])
NoTime == [shape |-> "None", items |-> <<>>]

TimeList(entries) == [shape |-> "list", items |-> entries]

TimeDict(start, end) == [shape |-> "dict", items |-> <<start, end>>]

TimeScalar(entry) == [shape |-> "scalar", items |-> <<entry>>]

supported_wildcard == <<"*", ".", "?", "/", "^">>

\* entry in owner
Contains(str, ch) == \E i \in DOMAIN str : str[i] = ch

\* the loop over supported_wildcard: the value of query_dict['owner'] after
\* entry k and the ones after it, q being its value before
RECURSIVE owner_query(_, _, _)
owner_query(owner, k, q) ==
    IF k > Len(supported_wildcard)
    THEN q
    ELSE IF Contains(owner, supported_wildcard[k])
         THEN Some([regex |-> TRUE, pattern |-> owner])
         ELSE owner_query(owner, k + 1, Some([regex |-> FALSE, pattern |-> owner]))

\* re.IGNORECASE over the letters of the model
UpperCase == <<"A", "R", "K", "B", "O">>

LowerCase == <<"a", "r", "k", "b", "o">>

Lower(c) ==
    IF \E i \in DOMAIN UpperCase : UpperCase[i] = c
    THEN LowerCase[CHOOSE i \in DOMAIN UpperCase : UpperCase[i] = c]
    ELSE c

CharMatch(c, x) == c = "." \/ Lower(c) = Lower(x)

\* pattern p from position i matches str from position j on (atoms: a
\* character, '.', each possibly followed by '*' or '?')
RECURSIVE MatchHere(_, _, _, _)
MatchHere(p, i, str, j) ==
    IF i > Len(p)
    THEN TRUE
    ELSE LET many == i + 1 <= Len(p) /\ p[i + 1] = "*"
             maybe == i + 1 <= Len(p) /\ p[i + 1] = "?"
             one == j <= Len(str) /\ CharMatch(p[i], str[j])
         IN IF many
            THEN MatchHere(p, i + 2, str, j) \/ (one /\ MatchHere(p, i, str, j + 1))
            ELSE IF maybe
                 THEN MatchHere(p, i + 2, str, j) \/ (one /\ MatchHere(p, i + 2, str, j + 1))
                 ELSE one /\ MatchHere(p, i + 1, str, j + 1)

\* {'$regex': re.compile(owner, re.IGNORECASE)}: an unanchored search
RegexSearch(p, str) ==
    IF Len(p) > 0 /\ p[1] = "^"
    THEN MatchHere(p, 2, str, 1)
    ELSE \E j \in 1 .. Len(str) + 1 : MatchHere(p, 1, str, j)

IsDatetime(entry) == entry.type = "datetime"

validate_time(time_entry_list) ==
    IF \E i \in DOMAIN time_entry_list : ~ IsDatetime(time_entry_list[i])
    THEN Raise("TypeError")
    ELSE Return(TRUE)

\* the conditions of a query on a time field
TimeIn(entries) == [op |-> "in", items |-> entries]

TimeRange(gte, lt) == [op |-> "range", items |-> <<gte, lt>>]

\* lines 314-325
start_time_query(start_time, now) ==
    IF start_time.shape = "list"
    THEN IF \E i \in DOMAIN start_time.items :
               validate_time(<<start_time.items[i]>>).raised # ""
         THEN Raise("TypeError")
         ELSE Return(TimeIn(start_time.items))
    ELSE IF start_time.shape = "dict"
         THEN IF validate_time(start_time.items).raised # ""
              THEN Raise("TypeError")
              ELSE Return(TimeRange(start_time.items[1], start_time.items[2]))
         ELSE IF validate_time(start_time.items).raised # ""
              THEN Raise("TypeError")
              ELSE Return(TimeRange(start_time.items[1], PyDatetime(now)))

\* lines 326-335
end_time_query(end_time, now) ==
    IF end_time.shape = "list"
    THEN IF \E i \in DOMAIN end_time.items :
               validate_time(<<end_time.items[i]>>).raised # ""
         THEN Raise("TypeError")
         ELSE Return(TimeIn(end_time.items))
    ELSE IF end_time.shape = "dict"
         THEN Return(TimeRange(end_time.items[1], end_time.items[2]))
         ELSE Return(TimeRange(end_time.items[1], PyDatetime(now)))

\* lines 301-335: query_dict, or the error raised while it is built
build_query(a) ==
    LET st == IF a.start_time.shape = "None" THEN Return(None)
              ELSE start_time_query(a.start_time, a.now)
        et == IF a.end_time.shape = "None" THEN Return(None)
              ELSE end_time_query(a.end_time, a.now)
    IN IF st.raised # "" THEN Raise(st.raised)
       ELSE IF et.raised # "" THEN Raise(et.raised)
       ELSE Return([_id |-> a.header_id,
                    owner |-> IF a.owner = None THEN None
                              ELSE owner_query(The(a.owner), 1, None),
                    scan_id |-> a.scan_id,
                    beamline_id |-> a.beamline_id,
                    start_time |-> IF a.start_time.shape = "None" THEN None
                                   ELSE Some(The(st.value)),
                    end_time |-> IF a.end_time.shape = "None" THEN None
                                 ELSE Some(The(et.value))])

\* the upper bound of a range taken inclusive ($lte for $lt)
TimeMatches_inclusive(t, cond) ==
    IF cond.op = "in"
    THEN \E i \in DOMAIN cond.items : IsDatetime(cond.items[i]) /\ cond.items[i].v = t
    ELSE /\ IsDatetime(cond.items[1]) /\ t >= cond.items[1].v
         /\ IsDatetime(cond.items[2]) /\ t <= cond.items[2].v

\* the store's comparison of a date field with a query value: values of
\* another type than the field's match nothing
TimeMatches(t, cond) ==
    IF cond.op = "in"
    THEN \E i \in DOMAIN cond.items : IsDatetime(cond.items[i]) /\ cond.items[i].v = t
    ELSE /\ IsDatetime(cond.items[1]) /\ t >= cond.items[1].v
         /\ IsDatetime(cond.items[2]) /\ t < cond.items[2].v

OwnerMatches(owner, cond) ==
    IF cond.regex THEN RegexSearch(cond.pattern, owner) ELSE owner = cond.pattern

\* the criteria joined by "or": a document matching any given one is found
Matches_any(h, q) ==
    \/ q._id # None /\ h._id = The(q._id)
    \/ q.owner # None /\ OwnerMatches(h.owner, The(q.owner))
    \/ q.scan_id # None /\ (The(q.scan_id).type = "int" /\ h.scan_id = The(q.scan_id).v)
    \/ q.beamline_id # None /\ h.beamline_id = q.beamline_id
    \/ q.start_time # None /\ TimeMatches(h.start_time, The(q.start_time))
    \/ q.end_time # None /\ TimeMatches(h.end_time, The(q.end_time))

\* the store's match of a Header document against query_dict
Matches(h, q) ==
    /\ q._id # None => h._id = The(q._id)
    /\ q.owner # None => OwnerMatches(h.owner, The(q.owner))
    /\ q.scan_id # None => (The(q.scan_id).type = "int" /\ h.scan_id = The(q.scan_id).v)
    /\ q.beamline_id # None => h.beamline_id = q.beamline_id
    /\ q.start_time # None => TimeMatches(h.start_time, The(q.start_time))
    /\ q.end_time # None => TimeMatches(h.end_time, The(q.end_time))

find_header(query_dict) == SelectSeq(Header, LAMBDA h : Matches(h, query_dict))

find_event(event_descriptor_id) ==
    SelectSeq(Event, LAMBDA e : e.event_descriptor_id = event_descriptor_id)

find_event_descriptor(header_id) ==
    SelectSeq(EventDescriptor, LAMBDA d : d.header_id = header_id)

HeaderKey(id) == "header_" \o ToString(id)

DescriptorKey(i) == "event_descriptor_" \o ToString(i)

EventKey(i) == "event_" \o ToString(i)

\* headers['header_' + str(_id)] = temp_dict, for the documents from i on
RECURSIVE decode_hdr_cursor(_, _, _)
decode_hdr_cursor(cursor_object, i, headers) ==
    IF i > Len(cursor_object)
    THEN headers
    ELSE decode_hdr_cursor(cursor_object, i + 1,
                           (HeaderKey(cursor_object[i]._id) :> cursor_object[i]) @@ headers)

\* events['event_' + str(i)] = temp_dict, i counting from 0
RECURSIVE decode_cursor(_, _, _)
decode_cursor(cursor_object, i, events) ==
    IF i >= Len(cursor_object)
    THEN events
    ELSE decode_cursor(cursor_object, i + 1,
                       (EventKey(i) :> cursor_object[i + 1]) @@ events)

\* the loop "for e_d in event_desc", from counter i on
RECURSIVE attach_descriptors(_, _, _, _)
attach_descriptors(header, event_desc, i, data) ==
    IF i >= Len(event_desc)
    THEN header
    ELSE LET e_d == event_desc[i + 1]
             events == find_event(e_d._id)
             entry == IF data
                      THEN ("events" :> decode_cursor(events, 0, <<>>)) @@ e_d
                      ELSE e_d
         IN attach_descriptors((DescriptorKey(i) :> entry) @@ header, event_desc, i + 1, data)

\* coll.find().sort([('end_time', -1)]): the documents (by position in the
\* collection) that can stand at index k; documents with equal end_time
\* come in an order the store chooses
RECURSIVE SortedItem(_, _)
SortedItem(S, k) ==
    IF S = {}
    THEN {}
    ELSE LET top == {i \in S : \A j \in S : Header[j].end_time <= Header[i].end_time}
         IN IF k = 0 THEN top ELSE UNION {SortedItem(S \ {i}, k - 1) : i \in top}

\* header_cursor[k] of the sorted cursor cut by limit(n)
header_cursor(n, k) == IF k >= n THEN {} ELSE SortedItem(DOMAIN Header, k)

\* lines 276-286 and 289-299, the document at position pos being the header
find_sentinel(pos, data) ==
    attach_descriptors(Header[pos], find_event_descriptor(Header[pos]._id), 0, data)

\* lines 301-349
find_general(a) ==
    LET q == build_query(a)
        header == decode_hdr_cursor(find_header(The(q.value)), 1, <<>>)
    IN IF q.raised # ""
       THEN Raise(q.raised)
       ELSE Return([key \in DOMAIN header |->
                      attach_descriptors(header[key],
                                         find_event_descriptor(header[key]._id), 0, a.data)])

RecentLimit == 5

(***************************************************************************)
(* find(header_id, scan_id, owner, start_time, beamline_id, end_time,      *)
(* data), called at time a.now                                             *)
(***************************************************************************)
find(a) ==
    /\ \E current \in Is(a.scan_id, "current"), last \in Is(a.scan_id, "last") :
          IF current
          THEN IF header_cursor(1, 0) = {}
               THEN res' = [op |-> "find", args |-> a, raised |-> "IndexError",
                            value |-> None]
               ELSE \E pos \in header_cursor(1, 0) :
                       res' = [op |-> "find", args |-> a, raised |-> "",
                               value |-> Some(find_sentinel(pos, a.data))]
          ELSE IF last
               THEN IF header_cursor(RecentLimit, 1) = {}
                    THEN res' = [op |-> "find", args |-> a, raised |-> "IndexError",
                                 value |-> None]
                    ELSE \E pos \in header_cursor(RecentLimit, 1) :
                            res' = [op |-> "find", args |-> a, raised |-> "",
                                    value |-> Some(find_sentinel(pos, a.data))]
               ELSE LET r == find_general(a)
                    IN res' = [op |-> "find", args |-> a, raised |-> r.raised,
                               value |-> r.value]
    /\ UNCHANGED <<store, clients>>

\* the arguments of a call, the ones not given left at their defaults
FindArgs(header_id, scan_id, owner, start_time, beamline_id, end_time, data, now) ==
    [header_id |-> header_id, scan_id |-> scan_id, owner |-> owner,
     start_time |-> start_time, beamline_id |-> beamline_id,
     end_time |-> end_time, data |-> data, now |-> now]

(***************************************************************************)
(* Initial state: empty collections, no call made, every client idle.      *)
(***************************************************************************)
Clients == {1, 2}

Init ==
    /\ Header = <<>>
    /\ EventDescriptor = <<>>
    /\ Event = <<>>
    /\ BeamlineConfig = <<>>
    /\ res = [op |-> "", args |-> <<>>, raised |-> "", value |-> None]
    /\ pc = [p \in Clients |-> "idle"]
    /\ original_entry = [p \in Clients |-> <<>>]
    /\ call = [p \in Clients |-> <<>>]
    /\ log = <<>>

(***************************************************************************)
(* Inputs.                                                                 *)
(***************************************************************************)
ScanIds == {12, 13}

Times == 1 .. MaxTime

DescriptorNames == {"scan", "motor"}

Arkilic == <<"a", "r", "k">>

EmptyDict == <<>>

HeaderIds == {HeaderIdBase + i : i \in 1 .. MaxHeaders + 1}

ConfigIds == {7, 8}

HeaderIdsIn(coll) == {coll[i]._id : i \in DOMAIN coll}

(***************************************************************************)
(* The record writers, called in any order.                                *)
(***************************************************************************)
Next ==
    \/ \E s \in ScanIds :
          /\ Len(Header) < MaxHeaders
          /\ save_header(s, Arkilic, 1, None, "In Progress", EmptyDict)
    \/ \E s \in ScanIds, n \in DescriptorNames :
          /\ Len(EventDescriptor) < MaxDescriptors \/ get_header_id(s).raised # ""
          /\ insert_event_descriptor(s, 0, Some(n), EmptyDict, None)
    \/ \E s \in ScanIds, n \in DescriptorNames :
          /\ Len(Event) < MaxEvents \/ get_event_descriptor_hid_edid(Some(n), s).raised # ""
          /\ insert_event(s, Some(n), None, Arkilic, None, EmptyDict)
    \/ \E h \in HeaderIds :
          save_beamline_config(7, h, EmptyDict)

Spec == Init /\ [][Next]_vars

(***************************************************************************)
(* Beamline configurations saved under two ids, over headers and their     *)
(* descriptors.                                                            *)
(***************************************************************************)
NextConfig ==
    \/ \E s \in ScanIds :
          /\ Len(Header) < MaxHeaders
          /\ save_header(s, Arkilic, 1, None, "In Progress", EmptyDict)
    \/ \E s \in ScanIds :
          /\ Len(EventDescriptor) < MaxDescriptors
          /\ insert_event_descriptor(s, 0, Some("scan"), EmptyDict, None)
    \/ \E c \in ConfigIds, h \in HeaderIds :
          save_beamline_config(c, h, EmptyDict)

SpecConfig == Init /\ [][NextConfig]_vars

(***************************************************************************)
(* Headers saved and updated, scan ids resolved.                           *)
(***************************************************************************)
Statuses == {"In Progress", "Complete"}

NextLookup ==
    \/ \E s \in ScanIds :
          /\ Len(Header) < MaxHeaders
          /\ save_header(s, Arkilic, 1, None, "In Progress", EmptyDict)
    \/ \E h \in HeaderIds, t \in Times : update_header_end_time(h, t)
    \/ \E h \in HeaderIds, s \in Statuses : update_header_status(h, s)
    \/ \E s \in ScanIds : call_get_header_id(s)

SpecLookup == Init /\ [][NextLookup]_vars

(***************************************************************************)
(* The most recently ended header: headers saved and ended, descriptors    *)
(* and events inserted, find(scan_id='current') called with and without    *)
(* data.                                                                   *)
(***************************************************************************)
\* The queries are made after each call that may have changed the store; a
\* query leaves the store as it is, so a second query in a row returns what
\* it would have returned in place of the first.
Changed == res.op # "find"

\* the sentinel as the literal and as a str built at run time
Sentinels(word) == {PyStr(word), PyStrBuilt(word)}

Current(scan_id, data) ==
    FindArgs(None, Some(scan_id), None, NoTime, None, NoTime, data, MaxTime)

Last(scan_id, data) ==
    FindArgs(None, Some(scan_id), None, NoTime, None, NoTime, data, MaxTime)

NextCurrent ==
    \/ \E s \in ScanIds :
          /\ Len(Header) < MaxHeaders
          /\ save_header(s, Arkilic, 1, None, "In Progress", EmptyDict)
    \/ \E h \in HeaderIdsIn(Header), t \in Times : update_header_end_time(h, t)
    \/ \E s \in ScanIds :
          /\ Len(EventDescriptor) < MaxDescriptors
          /\ insert_event_descriptor(s, 0, Some("scan"), EmptyDict, None)
    \/ \E s \in ScanIds :
          /\ Len(Event) < MaxEvents
          /\ insert_event(s, Some("scan"), None, Arkilic, None, EmptyDict)
    \/ \E s \in Sentinels("current"), data \in BOOLEAN :
          Changed /\ find(Current(s, data))

SpecCurrent == Init /\ [][NextCurrent]_vars

(***************************************************************************)
(* The header before the current one: up to MaxRecent headers saved and    *)
(* ended, find(scan_id='last') called.                                     *)
(***************************************************************************)
NextLast ==
    \/ /\ Len(Header) < MaxRecent
       /\ save_header(12, Arkilic, 0, None, "In Progress", EmptyDict)
    \/ \E h \in HeaderIdsIn(Header), t \in Times : update_header_end_time(h, t)
    \/ \E s \in Sentinels("last") : Changed /\ find(Last(s, FALSE))

SpecLast == Init /\ [][NextLast]_vars

(***************************************************************************)
(* The general filter on header_id, scan_id, owner, beamline_id and a      *)
(* start_time range, over headers saved with differing fields.             *)
(***************************************************************************)
Bob == <<"b", "o", "b">>

ArkUpper == <<"A", "R", "K">>

ArkStar == <<"a", "r", "k", "*">>

Custom == [field1 |-> "value1"]

\* the arguments of the save_header calls
HeaderInputs ==
    {<<12, Arkilic, 1, None, "In Progress", EmptyDict>>,
     <<13, Arkilic, 2, Some("csx"), "In Progress", EmptyDict>>,
     <<12, Bob, 1, Some("csx"), "Complete", Custom>>,
     <<13, ArkUpper, 2, Some("hxn"), "In Progress", Custom>>}

FilterInputs ==
    {FindArgs(h, s, o, st, b, NoTime, FALSE, MaxTime) :
        h \in {None, Some(HeaderIdBase + 1), Some(HeaderIdBase + 2)},
        s \in {None, Some(PyInt(12)), Some(PyStr("12"))},
        o \in {None, Some(Arkilic), Some(ArkStar)},
        st \in {NoTime, TimeDict(PyDatetime(1), PyDatetime(2))},
        b \in {None, Some("csx")}}
    \cup {FindArgs(None, None, None, NoTime, None, NoTime, TRUE, MaxTime)}

NextFilter ==
    \/ \E a \in HeaderInputs :
          /\ Len(Header) < MaxHeaders
          /\ save_header(a[1], a[2], a[3], a[4], a[5], a[6])
    \/ \E h \in HeaderIdsIn(Header) : update_header_status(h, "Complete")
    \/ \E s \in ScanIds :
          /\ EventDescriptor = <<>>
          /\ insert_event_descriptor(s, 0, Some("scan"), EmptyDict, None)
    \/ \E a \in FilterInputs : Changed /\ find(a)

SpecFilter == Init /\ [][NextFilter]_vars

(***************************************************************************)
(* The time criteria: start_time and end_time given as a list, a dict or a *)
(* scalar, of datetimes and of values that are no datetime.                *)
(***************************************************************************)
NotADatetime == PyStr("2014-06-13")

TimeEntries == {PyDatetime(t) : t \in 1 .. MaxTime + 1} \cup {NotADatetime}

TimeInputs ==
    {TimeDict(s, e) : s \in TimeEntries, e \in TimeEntries}
    \cup {TimeList(<<>>)}
    \cup {TimeList(<<e>>) : e \in TimeEntries}
    \cup {TimeList(<<PyDatetime(1), e>>) : e \in TimeEntries}
    \cup {TimeScalar(e) : e \in TimeEntries}

NextTime ==
    \/ \E t \in Times :
          /\ Len(Header) < MaxHeaders
          /\ save_header(12, Arkilic, t, None, "In Progress", EmptyDict)
    \/ \E h \in HeaderIdsIn(Header), t \in Times : update_header_end_time(h, t)
    \/ \E st \in TimeInputs :
          /\ Changed
          /\ find(FindArgs(None, None, None, st, None, NoTime, FALSE, MaxTime + 1))
    \/ \E et \in TimeInputs :
          /\ Changed
          /\ find(FindArgs(None, None, None, NoTime, None, et, FALSE, MaxTime + 1))
    \/ \E e \in TimeEntries, now \in Times :
          /\ Changed
          /\ find(FindArgs(None, None, None, TimeScalar(e), None,
                           TimeDict(PyDatetime(1), e), FALSE, now))

SpecTime == Init /\ [][NextTime]_vars

(***************************************************************************)
(* Two clients, each making one update call on a header, their reads and   *)
(* writes interleaved in any order.                                        *)
(***************************************************************************)
NextRace ==
    \/ /\ Len(Header) < MaxHeaders
       /\ save_header(12, Arkilic, 1, None, "In Progress", EmptyDict)
    \/ \E p \in Clients, h \in HeaderIds, t \in Times :
          update_header_end_time_read(p, h, t)
    \/ \E p \in Clients : update_header_end_time_write(p)
    \/ \E p \in Clients, h \in HeaderIds, s \in Statuses :
          update_header_status_read(p, h, s)
    \/ \E p \in Clients : update_header_status_write(p)

SpecRace == Init /\ [][NextRace]_vars

(***************************************************************************)
(* Claims.                                                                 *)
(***************************************************************************)
HeaderIdsStored == {Header[i]._id : i \in DOMAIN Header}

ConfigsWithId(coll, c) == {i \in DOMAIN coll : coll[i]._id = c}

OtherConfigs(coll, c) == {coll[i] : i \in {j \in DOMAIN coll : coll[j]._id # c}}

\* C1: save_beamline_config with a header_id that matches no stored Header
\* raises ValueError and leaves all four collections as they were; with a
\* header_id of a stored Header it raises nothing, leaves the other three
\* collections and every other BeamlineConfig as they were, and afterwards
\* exactly one BeamlineConfig has the caller's id, and it carries that header_id.
C1_SaveBeamlineConfig ==
    [][res'.op = "save_beamline_config" =>
        LET c == res'.args[1]
            h == res'.args[2]
        IN IF h \notin HeaderIdsStored
           THEN res'.raised = "ValueError" /\ UNCHANGED store
           ELSE /\ res'.raised = ""
                /\ UNCHANGED <<Header, EventDescriptor, Event>>
                /\ Cardinality(ConfigsWithId(BeamlineConfig', c)) = 1
                /\ \A i \in ConfigsWithId(BeamlineConfig', c) :
                      BeamlineConfig'[i].header_id = h
                /\ OtherConfigs(BeamlineConfig', c) = OtherConfigs(BeamlineConfig, c)
                /\ Len(BeamlineConfig') =
                      Len(BeamlineConfig) + (IF ConfigsWithId(BeamlineConfig, c) = {} THEN 1 ELSE 0)
    ]_vars

\* a save_beamline_config call has just been refused on a store that holds
\* headers, descriptors and an accepted configuration
C1_Witness ==
    /\ res.op = "save_beamline_config"
    /\ res.raised = "ValueError"
    /\ Len(Header) >= 1
    /\ Len(EventDescriptor) >= 1
    /\ Len(BeamlineConfig) >= 2

\* C7: get_header_id(s) raises when no stored header has scan id s, and when
\* exactly one stored header H has it (H's scan id is distinct from all the
\* others') returns H's _id, the one save_header gave it, whatever updates
\* the headers went through.
C7_GetHeaderId ==
    res.op = "get_header_id" =>
        LET s == res.args[1]
            hs == {i \in DOMAIN Header : Header[i].scan_id = s}
        IN /\ hs = {} => res.raised = "Exception" /\ res.value = None
           /\ Cardinality(hs) = 1 =>
                 /\ res.raised = ""
                 /\ \A i \in hs : res.value = Some(Header[i]._id)
                                  /\ Header[i]._id = HeaderIdBase + i

\* the second of two headers with distinct scan ids, updated since it was
\* saved, has just been looked up
C7_Witness ==
    /\ res.op = "get_header_id"
    /\ res.raised = ""
    /\ Len(Header) = 2
    /\ Header[1].scan_id # Header[2].scan_id
    /\ res.args[1] = Header[2].scan_id
    /\ Header[2].status = "Complete"
    /\ Header[2].end_time # Header[2].start_time

RefIntegrity ==
    /\ \A i \in DOMAIN EventDescriptor :
          EventDescriptor[i].header_id \in HeaderIdsStored
    /\ \A i \in DOMAIN Event :
          \E j \in DOMAIN EventDescriptor :
             /\ EventDescriptor[j]._id = Event[i].event_descriptor_id
             /\ EventDescriptor[j].header_id = Event[i].header_id

\* C10: in every reachable state each EventDescriptor's header_id is the _id
\* of a stored Header and each Event's event_descriptor_id is the _id of a
\* stored EventDescriptor with the Event's header_id; insert_event_descriptor
\* with a scan id of no header, and insert_event with a (name, scan id) of no
\* descriptor, raise and leave all four collections as they were.
C10_ReferentialIntegrity ==
    /\ []RefIntegrity
    /\ [][/\ (res'.op = "insert_event_descriptor"
               /\ \A i \in DOMAIN Header : Header[i].scan_id # res'.args[1])
             => (res'.raised # "" /\ UNCHANGED store)
          /\ (res'.op = "insert_event"
               /\ ~ \E i \in DOMAIN Header, j \in DOMAIN EventDescriptor :
                      /\ Header[i].scan_id = res'.args[1]
                      /\ EventDescriptor[j].header_id = Header[i]._id
                      /\ EventDescriptor[j].event_type_name = res'.args[2])
             => (res'.raised # "" /\ UNCHANGED store)
       ]_vars

\* an insert_event naming no descriptor has just been refused on a store
\* that holds an event under one of two descriptors
C10_Witness ==
    /\ res.op = "insert_event"
    /\ res.raised = "IndexError"
    /\ Len(Event) >= 1
    /\ Len(EventDescriptor) >= 2
    /\ Len(BeamlineConfig) >= 1

\* position j's place (from 0) among the positions S, in store order
Rank(S, j) == Cardinality({x \in S : x < j})

SameFields(doc, stored) ==
    /\ DOMAIN stored \subseteq DOMAIN doc
    /\ \A f \in DOMAIN stored : doc[f] = stored[f]

DescriptorsOf(hid) == {j \in DOMAIN EventDescriptor : EventDescriptor[j].header_id = hid}

EventsOf(did) == {m \in DOMAIN Event : Event[m].event_descriptor_id = did}

\* hdr is the stored header at position i with exactly its own descriptors
\* attached under event_descriptor_0, event_descriptor_1, ... in store order,
\* each with exactly its own events under event_0, event_1, ... in store
\* order when data is true, and with no events key when data is false
IsTreeOf(hdr, i, data) ==
    LET ds == DescriptorsOf(Header[i]._id)
    IN /\ SameFields(hdr, Header[i])
       /\ DOMAIN hdr = DOMAIN Header[i] \cup {DescriptorKey(k) : k \in 0 .. Cardinality(ds) - 1}
       /\ \A j \in ds :
             LET d == hdr[DescriptorKey(Rank(ds, j))]
                 es == EventsOf(EventDescriptor[j]._id)
             IN /\ SameFields(d, EventDescriptor[j])
                /\ IF data
                   THEN /\ DOMAIN d = DOMAIN EventDescriptor[j] \cup {"events"}
                        /\ DOMAIN d.events = {EventKey(k) : k \in 0 .. Cardinality(es) - 1}
                        /\ \A m \in es : d.events[EventKey(Rank(es, m))] = Event[m]
                   ELSE DOMAIN d = DOMAIN EventDescriptor[j]

\* the call has returned a header whose end_time no stored header exceeds,
\* with exactly that header's descriptors attached in store order, each
\* carrying exactly its own events in store order when data is true and no
\* events key when data is false
ReturnsCurrent ==
    /\ res.raised = ""
    /\ \E i \in DOMAIN Header :
          /\ \A j \in DOMAIN Header : Header[j].end_time <= Header[i].end_time
          /\ IsTreeOf(The(res.value), i, res.args.data)

\* C2: with at least one header stored, find(scan_id="current"), scan_id
\* being any str equal to "current", returns the header with the maximum
\* end_time with its descriptors (and events, if data is true) attached.
C2_FindCurrent ==
    (res.op = "find" /\ Equals(res.args.scan_id, "current") /\ Len(Header) >= 1) =>
        ReturnsCurrent

\* C2 for the literal: the same, scan_id being the very object the literal
\* 'current' denotes.
C2_FindCurrentLiteral ==
    (res.op = "find" /\ res.args.scan_id = Some(PyStr("current")) /\ Len(Header) >= 1) =>
        ReturnsCurrent

\* find(scan_id="current", data=True) has returned the first of two headers,
\* ended after the second, with its descriptor carrying two events, while the
\* other header has a descriptor of its own
C2_Witness ==
    /\ res.op = "find" /\ res.args.scan_id = Some(PyStr("current")) /\ res.args.data
    /\ res.raised = ""
    /\ Len(Header) = 2
    /\ The(res.value)._id = Header[1]._id
    /\ Header[1].end_time > Header[2].end_time
    /\ Cardinality(DescriptorsOf(Header[1]._id)) = 1
    /\ Cardinality(DescriptorsOf(Header[2]._id)) = 1
    /\ Cardinality(DOMAIN The(res.value).event_descriptor_0.events) = 2

\* the call has raised when fewer than 2 headers are stored, and otherwise
\* returned a header that stands at index 1 of the headers sorted by end_time
\* descending (at most one header ended later, and at least one other header
\* ended no earlier), however many headers are stored
ReturnsLast ==
    IF Len(Header) < 2
    THEN res.raised # "" /\ res.value = None
    ELSE /\ res.raised = ""
         /\ \E i \in DOMAIN Header :
               /\ IsTreeOf(The(res.value), i, res.args.data)
               /\ Cardinality({j \in DOMAIN Header :
                                 Header[j].end_time > Header[i].end_time}) <= 1
               /\ Cardinality({j \in DOMAIN Header \ {i} :
                                 Header[j].end_time >= Header[i].end_time}) >= 1

\* C3: find(scan_id="last"), scan_id being any str equal to "last", fails
\* when fewer than 2 headers exist and otherwise returns the second header
\* by end_time descending, also with more than 5 headers stored.
C3_FindLast ==
    (res.op = "find" /\ Equals(res.args.scan_id, "last")) => ReturnsLast

\* C3 for the literal: the same, scan_id being the very object the literal
\* 'last' denotes.
C3_FindLastLiteral ==
    (res.op = "find" /\ res.args.scan_id = Some(PyStr("last"))) => ReturnsLast

\* find(scan_id="last") has returned a header out of more than RecentLimit,
\* one of which alone ended later than it and the rest earlier
C3_Witness ==
    /\ res.op = "find" /\ res.args.scan_id = Some(PyStr("last"))
    /\ res.raised = ""
    /\ Len(Header) > RecentLimit
    /\ \E i \in DOMAIN Header :
          /\ The(res.value)._id = Header[i]._id
          /\ Cardinality({j \in DOMAIN Header : Header[j].end_time > Header[i].end_time}) = 1
          /\ \A j \in DOMAIN Header \ {i} : Header[j].end_time # Header[i].end_time

GeneralMode(a) == ~ Equals(a.scan_id, "current") /\ ~ Equals(a.scan_id, "last")

\* the result of a general-mode find is exactly the trees of the headers at
\* the positions S, each under the key "header_<id>"
IsResultOf(value, S, data) ==
    /\ DOMAIN value = {HeaderKey(Header[i]._id) : i \in S}
    /\ \A i \in S : IsTreeOf(value[HeaderKey(Header[i]._id)], i, data)

WellFormedRange(time) ==
    time.shape = "dict" /\ \A k \in DOMAIN time.items : time.items[k].type = "datetime"

\* C4: find(start_time={'start': T1, 'end': T2}) with no other criterion
\* returns exactly the stored headers with T1 <= start_time < T2.
C4_StartTimeRange ==
    (/\ res.op = "find" /\ GeneralMode(res.args)
     /\ WellFormedRange(res.args.start_time)
     /\ res.args.end_time = NoTime
     /\ res.args.header_id = None /\ res.args.scan_id = None
     /\ res.args.owner = None /\ res.args.beamline_id = None) =>
        /\ res.raised = ""
        /\ IsResultOf(The(res.value),
                      {i \in DOMAIN Header :
                          /\ res.args.start_time.items[1].v <= Header[i].start_time
                          /\ Header[i].start_time < res.args.start_time.items[2].v},
                      res.args.data)

\* a range query has returned the header that started at T1 and left out the
\* header that started at T2
C4_Witness ==
    /\ res.op = "find" /\ WellFormedRange(res.args.start_time)
    /\ res.args.end_time = NoTime
    /\ res.raised = ""
    /\ Len(Header) = 2
    /\ Header[1].start_time = res.args.start_time.items[2].v
    /\ Header[2].start_time = res.args.start_time.items[1].v
    /\ DOMAIN The(res.value) = {HeaderKey(Header[2]._id)}

NoWildcard(owner) ==
    \A k \in DOMAIN owner : owner[k] \notin {"*", ".", "?", "/", "^"}

\* C5: in the general mode find returns exactly the stored headers that
\* satisfy every criterion given: header_id, scan_id, beamline_id and an
\* owner without wildcard characters by equality, a start_time range by
\* start <= start_time < end; a criterion left None restricts nothing. Each
\* header is returned under the key "header_<id>".
C5_GeneralFilter ==
    (/\ res.op = "find" /\ GeneralMode(res.args)
     /\ res.args.owner # None => NoWildcard(The(res.args.owner))
     /\ res.args.start_time = NoTime \/ WellFormedRange(res.args.start_time)
     /\ res.args.end_time = NoTime) =>
        /\ res.raised = ""
        /\ IsResultOf(The(res.value),
                      {i \in DOMAIN Header :
                          /\ res.args.header_id # None =>
                                Some(Header[i]._id) = res.args.header_id
                          /\ res.args.scan_id # None =>
                                /\ The(res.args.scan_id).type = "int"
                                /\ Header[i].scan_id = The(res.args.scan_id).v
                          /\ res.args.beamline_id # None =>
                                Header[i].beamline_id = res.args.beamline_id
                          /\ res.args.owner # None =>
                                Some(Header[i].owner) = res.args.owner
                          /\ res.args.start_time # NoTime =>
                                /\ res.args.start_time.items[1].v <= Header[i].start_time
                                /\ Header[i].start_time < res.args.start_time.items[2].v},
                      res.args.data)

\* a find with owner and beamline_id given has returned one of two stored
\* headers, the other matching the beamline_id but not the owner
C5_Witness ==
    /\ res.op = "find" /\ GeneralMode(res.args) /\ res.raised = ""
    /\ res.args.owner = Some(Arkilic)
    /\ res.args.beamline_id = Some("csx")
    /\ res.args.scan_id = None
    /\ res.args.header_id = None
    /\ res.args.start_time = NoTime
    /\ Len(Header) = 2
    /\ Header[1].owner = Bob /\ Header[1].beamline_id = Some("csx")
    /\ DOMAIN The(res.value) = {HeaderKey(Header[2]._id)}

Malformed(time) ==
    time.shape # "None" /\ \E k \in DOMAIN time.items : time.items[k].type # "datetime"

\* C6: a find whose start_time or end_time holds a value that is no
\* datetime, in a list, in a dict or as a scalar, raises TypeError.
C6_MalformedTimeRaises ==
    (/\ res.op = "find" /\ GeneralMode(res.args)
     /\ Malformed(res.args.start_time) \/ Malformed(res.args.end_time)) =>
        res.raised = "TypeError"

CreationFields == {"scan_id", "owner", "start_time", "beamline_id", "status", "custom", "end_time"}

ByHeaderId(id) == FindArgs(Some(id), None, None, NoTime, None, NoTime, FALSE, MaxTime)

\* what find(header_id=id) returns for the creation fields of the header
Retrieved(id) ==
    LET r == find_general(ByHeaderId(id))
    IN IF r.raised = "" /\ DOMAIN The(r.value) = {HeaderKey(id)}
       THEN Some([f \in CreationFields |-> The(r.value)[HeaderKey(id)][f]])
       ELSE None

StoredHeader(id) == Header[CHOOSE i \in DOMAIN Header : Header[i]._id = id]

BothDone == \A p \in Clients : pc[p] = "done"

SameHeader == call[1][2] = call[2][2]

\* the first call wrote before the second read
OneAfterTheOther == log[1][1] = log[2][1]

LastWriter == log[Len(log)][1]

FirstWriter == CHOOSE p \in Clients : p # LastWriter

\* the stored header holds the value client p wrote
Carries(p) == StoredHeader(call[p][2])[call[p][1]] = call[p][3]

\* C9 as stated: two update calls on the same header that ran one after the
\* other both leave their written value in the stored header.
C9_SequentialKeepsBoth ==
    (BothDone /\ SameHeader /\ OneAfterTheOther) => (Carries(1) /\ Carries(2))

\* C9 as amended: after two update calls on the same header the stored header
\* holds the value of the call that wrote last; when the calls changed
\* different fields it also holds the other call's value if the calls ran one
\* after the other, and if both read before either wrote it holds in that
\* field the value the last writer had read.
C9_ReadModifyWrite ==
    (BothDone /\ SameHeader) =>
        /\ Carries(LastWriter)
        /\ call[1][1] # call[2][1] =>
              IF OneAfterTheOther
              THEN Carries(FirstWriter)
              ELSE StoredHeader(call[FirstWriter][2])[call[FirstWriter][1]] =
                      original_entry[LastWriter][1][call[FirstWriter][1]]

\* both calls are over, an end_time update and a status update of the same
\* header that both read before either wrote, and the stored header does not
\* hold the value written first
C9_Witness ==
    /\ BothDone /\ SameHeader
    /\ call[1][1] # call[2][1]
    /\ ~ OneAfterTheOther
    /\ ~ Carries(FirstWriter)

====
